---------------------------- MODULE Spec2Model ----------------------------
(***************************************************************************)
(* Model of hb-downloader's API client (api/src/lib.rs): the integrity     *)
(* checker check_data_validity with its two digest functions, and the      *)
(* fetch-and-persist pipeline HBClient::download / download_order (Spec);  *)
(* the read loop of the digest functions over any reader (SpecDigest);     *)
(* and the subcommands of downloader/src/main.rs (SpecMain).               *)
(*                                                                         *)
(* Conventions.  Option<T> is a sequence of length <= 1: None is << >> and *)
(* Some(x) is <<x>>.  A String is a TLA+ string; a URL string is the       *)
(* sequence of its lexemes ("https", ":", "/", "cdn", ...), so that        *)
(* Url::parse and path_segments() are computed, not assumed.  File         *)
(* contents and response chunks are sequences of bytes.                    *)
(***************************************************************************)
EXTENDS Integers, Sequences, FiniteSets, TLC

None == << >>
Some(x) == <<x>>
IsSome(o) == Len(o) = 1
Unwrap(o) == o[1]

(***************************************************************************)
(* Digest engine: sha1_digest / md5_digest.  The hash is streamed: new(),  *)
(* update() per read, finalize(), then formatted with {:x}.  The           *)
(* compression function of the sha1 / md5 crates is abstracted to an       *)
(* 8-bit multiplicative fold (one output byte); the streaming structure    *)
(* and the lower-case hexadecimal formatting are kept.                     *)
(***************************************************************************)
Sha1Init == 218
Sha1Mult == 31
Md5Init == 212
Md5Mult == 29
ReadBufferSize == 1024

RECURSIVE DigestUpdate(_, _, _)
DigestUpdate(h, data, mult) ==
    IF data = << >> THEN h
    ELSE DigestUpdate((h * mult + Head(data) + 1) % 256, Tail(data), mult)

\* one reader.read(&mut buffer): at most ReadBufferSize bytes of what is left
ReadCount(rest) == IF Len(rest) < ReadBufferSize THEN Len(rest) ELSE ReadBufferSize

\* the read loop of sha1_digest / md5_digest: read, stop on count = 0, update
RECURSIVE DigestLoop(_, _, _)
DigestLoop(h, rest, mult) ==
    LET count == ReadCount(rest) IN
    IF count = 0 THEN h
    ELSE DigestLoop(DigestUpdate(h, SubSeq(rest, 1, count), mult),
                    SubSeq(rest, count + 1, Len(rest)), mult)

HexDigits == <<"0", "1", "2", "3", "4", "5", "6", "7",
               "8", "9", "a", "b", "c", "d", "e", "f">>

\* format!("{:x}", hash): two lower-case hexadecimal digits per output byte
LowerHex(byte) == HexDigits[(byte \div 16) + 1] \o HexDigits[(byte % 16) + 1]

Sha1Digest(content) == LowerHex(DigestLoop(Sha1Init, content, Sha1Mult))
Md5Digest(content) == LowerHex(DigestLoop(Md5Init, content, Md5Mult))

(***************************************************************************)
(* Integrity checker: check_data_validity, on the bytes read from the      *)
(* opened file.  (Its File::open can fail; that outcome is an action of    *)
(* the pipeline below.)                                                    *)
(***************************************************************************)

\* faulty variants of check_data_validity: md5 consulted before sha1; no digest
\* treated as a failure
CheckDataValidityMd5First(download_struct, content) ==
    IF IsSome(download_struct.md5)
    THEN Unwrap(download_struct.md5) = Md5Digest(content)
    ELSE IF IsSome(download_struct.sha1)
         THEN Unwrap(download_struct.sha1) = Sha1Digest(content)
         ELSE TRUE
CheckDataValidityNeedsDigest(download_struct, content) ==
    IF IsSome(download_struct.sha1)
    THEN Unwrap(download_struct.sha1) = Sha1Digest(content)
    ELSE IF IsSome(download_struct.md5)
         THEN Unwrap(download_struct.md5) = Md5Digest(content)
         ELSE FALSE

CheckDataValidity(download_struct, content) ==
    IF IsSome(download_struct.sha1)
    THEN Unwrap(download_struct.sha1) = Sha1Digest(content)
    ELSE IF IsSome(download_struct.md5)
         THEN Unwrap(download_struct.md5) = Md5Digest(content)
         ELSE TRUE

(***************************************************************************)
(* Url::parse and the file name derivation of HBClient::download.          *)
(* A URL string is a sequence of lexemes.  Parsing follows the url crate:  *)
(* a scheme followed by ":" is required (there is no base URL); after a    *)
(* special scheme any slashes are skipped and a host must follow; any      *)
(* other scheme takes an authority after "//", a path after "/", and is    *)
(* otherwise a cannot-be-a-base URL, whose path has no segments.  The path *)
(* ends at the first "?" or "#".  (Dot segments and percent-encoding are   *)
(* not modelled: the lexemes used hold neither.)                           *)
(***************************************************************************)
SpecialSchemes == {"http", "https", "ftp", "ws", "wss"}
Delimiters == {":", "/", "?", "#"}

\* index of the first lexeme of s from i on that is in set, Len(s) + 1 when
\* there is none
RECURSIVE FirstIn(_, _, _)
FirstIn(s, set, i) ==
    IF i > Len(s) THEN Len(s) + 1
    ELSE IF s[i] \in set THEN i ELSE FirstIn(s, set, i + 1)

Drop(s, n) == SubSeq(s, n + 1, Len(s))

RECURSIVE SkipSlashes(_)
SkipSlashes(s) == IF s # << >> /\ s[1] = "/" THEN SkipSlashes(Tail(s)) ELSE s

\* the path (from its leading "/") of what follows the authority
PathOf(rest) == SubSeq(rest, 1, FirstIn(rest, {"?", "#"}, 1) - 1)

ParseError == [ok |-> FALSE, cannot_be_a_base |-> FALSE, path |-> << >>]
Parsed(cannot_be_a_base, path) ==
    [ok |-> TRUE, cannot_be_a_base |-> cannot_be_a_base, path |-> path]

UrlParse(web) ==
    IF Len(web) < 2 \/ web[1] \in Delimiters \/ web[2] # ":"
    THEN ParseError
    ELSE LET scheme == web[1]
             rest == Drop(web, 2)
             slashes == Len(rest) >= 2 /\ rest[1] = "/" /\ rest[2] = "/"
             hostFirst == SkipSlashes(rest)
             hostEnd == FirstIn(hostFirst, {"/", "?", "#"}, 1)
             afterAuth == Drop(rest, FirstIn(rest, {"/", "?", "#"}, 3) - 1)
         IN  IF scheme \in SpecialSchemes
             THEN IF hostEnd = 1
                  THEN ParseError
                  ELSE LET path == PathOf(Drop(hostFirst, hostEnd - 1))
                       IN  Parsed(FALSE, IF path = << >> THEN <<"/">> ELSE path)
             ELSE IF slashes
                  THEN Parsed(FALSE, PathOf(afterAuth))
                  ELSE IF rest # << >> /\ rest[1] = "/"
                       THEN Parsed(FALSE, PathOf(rest))
                       ELSE Parsed(TRUE, PathOf(rest))

\* index of the last "/" of path, 0 when there is none
RECURSIVE LastSlash(_, _)
LastSlash(path, i) ==
    IF i = 0 THEN 0 ELSE IF path[i] = "/" THEN i ELSE LastSlash(path, i - 1)

RECURSIVE Concat(_)
Concat(lexemes) ==
    IF lexemes = << >> THEN "" ELSE Head(lexemes) \o Concat(Tail(lexemes))

\* faulty variant: the first path segment is taken instead of the last
FileNameOfFirstSegment(url) ==
    IF url.cannot_be_a_base \/ url.path = << >> \/ url.path[1] # "/"
    THEN None
    ELSE LET name == Concat(SubSeq(url.path, 2, FirstIn(url.path, {"/"}, 2) - 1))
         IN  IF name = "" THEN None ELSE Some(name)

\* url.path_segments().and_then(|s| s.last()).and_then(non-empty): Option<&str>
FileNameOf(url) ==
    IF url.cannot_be_a_base \/ url.path = << >> \/ url.path[1] # "/"
    THEN None
    ELSE LET name == Concat(Drop(url.path, LastSlash(url.path, Len(url.path))))
         IN  IF name = "" THEN None ELSE Some(name)


(***************************************************************************)
(* Inputs.  An Order is a list of Subproducts, each a list of Downloads,   *)
(* each a platform and a list of DownloadStruct (types.rs).                *)
(***************************************************************************)
Variant(url, sha1, md5) == [url |-> url, sha1 |-> sha1, md5 |-> md5]
Download(platform, files) == [platform |-> platform, download_struct |-> files]
Subproduct(downloads) == [downloads |-> downloads]
Order(subproducts) == [subproducts |-> subproducts]

UrlA == <<"https", ":", "/", "/", "cdn", "/", "a.zip">>
UrlA2 == <<"https", ":", "/", "/", "cdn", "/", "dir", "/", "a.zip", "?", "t=1">>
UrlB == <<"https", ":", "/", "/", "cdn", "/", "b.zip", "#", "top">>
UrlDir == <<"https", ":", "/", "/", "cdn", "/", "dir", "/">>
UrlRelative == <<"cdn", "/", "a.zip">>
UrlMailto == <<"mailto", ":", "a.zip">>
UrlHost == <<"https", ":", "/", "/", "cdn">>

Good == <<1, 2>>
Other == <<2>>

\* the expected digests a variant may carry: right, right but in upper case
\* ({:X}), and wrong
UpperHexDigits == <<"0", "1", "2", "3", "4", "5", "6", "7",
                    "8", "9", "A", "B", "C", "D", "E", "F">>
UpperHex(byte) == UpperHexDigits[(byte \div 16) + 1] \o UpperHexDigits[(byte % 16) + 1]
Sha1Options == { None, Some(Sha1Digest(Good)), Some(Sha1Digest(Other)),
                 Some(UpperHex(DigestLoop(Sha1Init, Good, Sha1Mult))) }
Md5Options == { None, Some(Md5Digest(Good)), Some(Md5Digest(Other)),
                Some(UpperHex(DigestLoop(Md5Init, Good, Md5Mult))) }

\* the variants an order of several variants is built from
Variants ==
    { Variant(Some(UrlA), Some(Sha1Digest(Good)), None),
      Variant(Some(UrlA2), None, Some(Md5Digest(Good))),
      Variant(None, Some(Sha1Digest(Good)), None),
      Variant(Some(UrlDir), None, None),
      Variant(Some(UrlRelative), None, Some(Md5Digest(Good))) }

\* the variants of an order of one variant: every combination of digests, and
\* every shape of URL
DigestVariants == {Variant(Some(UrlA), s, m) : s \in Sha1Options, m \in Md5Options}
UrlVariants ==
    {Variant(Some(u), None, None) :
        u \in {UrlA, UrlA2, UrlB, UrlDir, UrlRelative, UrlMailto, UrlHost}}

MaxVariants == 2
MaxChunks == 2

RECURSIVE SeqsUpTo(_, _)
SeqsUpTo(S, n) ==
    IF n = 0 THEN {<< >>}
    ELSE LET shorter == SeqsUpTo(S, n - 1)
         IN  shorter \cup {Append(s, x) : s \in shorter, x \in S}

Platforms == {"linux", "windows"}
Downloads == {Download(p, fs) : p \in Platforms, fs \in SeqsUpTo(Variants, MaxVariants)}

\* the two downloads of an order of two downloads
FirstDownloads == {Download(p, fs) : p \in Platforms, fs \in SeqsUpTo(Variants, 1)}
FollowUps ==
    { Download("linux", <<Variant(Some(UrlB), None, None)>>),
      Download("linux", <<Variant(Some(UrlA), Some(Sha1Digest(Good)), None)>>),
      Download("linux", <<Variant(Some(UrlA2), None, None)>>),
      Download("windows", <<Variant(Some(UrlA), None, None)>>) }

Orders ==
    {Order(<< >>)}
    \cup {Order(<<Subproduct(<<d>>)>>) : d \in Downloads}
    \cup {Order(<<Subproduct(<<Download("linux", <<v>>)>>)>>) :
             v \in DigestVariants \cup UrlVariants}
    \cup {Order(<<Subproduct(<<d, e>>)>>) : d \in FirstDownloads, e \in FollowUps}
    \cup {Order(<<Subproduct(<< >>), Subproduct(<<d>>), Subproduct(<<e>>)>>) :
             d \in FirstDownloads, e \in FollowUps}

\* the download folder: each file name absent, or present with some content
\* ("dir" is a name no URL of the inputs ends with)
FileNames == {"a.zip", "b.zip", "dir"}
NoFile == [exists |-> FALSE, data |-> << >>]
FileWith(data) == [exists |-> TRUE, data |-> data]
Folders ==
    { [name \in FileNames |->
          IF name = "a.zip" THEN a ELSE IF name = "b.zip" THEN b ELSE NoFile] :
        a \in {NoFile, FileWith(Good), FileWith(Other)}, b \in {NoFile, FileWith(Other)} }

\* the bodies a download host serves: a content cut into at most MaxChunks chunks
RECURSIVE Splits(_, _)
Splits(data, n) ==
    IF data = << >> THEN {<< >>}
    ELSE IF n = 0 THEN {}
    ELSE UNION { {<<SubSeq(data, 1, k)>> \o rest :
                     rest \in Splits(SubSeq(data, k + 1, Len(data)), n - 1)} :
                 k \in 1..Len(data) }
Bodies == Splits(Good, MaxChunks) \cup Splits(Other, MaxChunks)

(***************************************************************************)
(* State.                                                                  *)
(***************************************************************************)
VARIABLES
    order,      \* the Order handed to download_order
    platforms,  \* HBClient.platforms
    fs,         \* the download folder: file name -> file
    pc,         \* where download_order / download stands
    pi, di, vi, \* indexes of the current subproduct, download and variant
    dest,       \* Option of the open tokio File being written
    inflight,   \* background writes of handles already dropped
    stream,     \* Option of the chunks the response stream has yet to yield
    result,     \* "running", "Ok", "Api", "IO", "UrlParse" or "panic"
    log,        \* history: what the client did and found, in order
    reader,     \* one call of sha1_digest / md5_digest on a reader
    cli         \* one run of the downloader's main

pipeline == <<order, platforms, fs, pc, pi, di, vi, dest, inflight, stream, result, log>>
vars == <<order, platforms, fs, pc, pi, di, vi, dest, inflight, stream, result, log,
          reader, cli>>

\* reader and cli while download_order is looked at on its own, and the
\* other way round
ReaderIdle == [pc |-> "idle"]
CliIdle == [pc |-> "idle"]

At == <<pi, di, vi>>
CurDownload == order.subproducts[pi].downloads[di]
CurFile == CurDownload.download_struct[vi]


\* faulty variant: the platform set is not consulted
EligibleAnyPlatform(download, file) == IsSome(file.url)

\* the part of a variant's loop body before the file system is touched
Eligible(download, file) == IsSome(file.url) /\ download.platform \in platforms
ParsedUrl(file) == UrlParse(Unwrap(file.url))
FName(file) == FileNameOf(ParsedUrl(file))
HasFileName(file) == IsSome(file.url) /\ ParsedUrl(file).ok /\ IsSome(FName(file))
CurName == Unwrap(FName(CurFile))

Event(op, data) == [op |-> op, at |-> At, data |-> data]
Logged(op, data) == log' = Append(log, Event(op, data))

\* std write of data through a descriptor standing at offset pos
RECURSIVE Zeros(_)
Zeros(n) == IF n <= 0 THEN << >> ELSE <<0>> \o Zeros(n - 1)
WriteAt(data, pos, chunk) ==
    LET padded == IF Len(data) < pos THEN data \o Zeros(pos - Len(data)) ELSE data
    IN  SubSeq(padded, 1, pos) \o chunk \o Drop(padded, pos + Len(chunk))
Landed(files, w) == [files EXCEPT ![w.name] = FileWith(WriteAt(@.data, w.pos, w.chunk))]

Init ==
    /\ order \in Orders
    /\ platforms = {"linux"}
    /\ fs \in Folders
    /\ pc = "order"
    /\ pi = 1 /\ di = 1 /\ vi = 1
    /\ dest = None
    /\ inflight = {}
    /\ stream = None
    /\ result = "running"
    /\ log = << >>
    /\ reader = ReaderIdle
    /\ cli = CliIdle

PipelineIdle ==
    /\ order = Order(<< >>)
    /\ platforms = {"linux"}
    /\ fs = [name \in FileNames |-> NoFile]
    /\ pc = "done"
    /\ pi = 1 /\ di = 1 /\ vi = 1
    /\ dest = None
    /\ inflight = {}
    /\ stream = None
    /\ result = "Ok"
    /\ log = << >>


RECURSIVE Flatten(_)
Flatten(chunks) == IF chunks = << >> THEN << >> ELSE Head(chunks) \o Flatten(Tail(chunks))

\* a tokio File: write_all hands the chunk to a background task and returns;
\* busy is the chunk of the task not yet run, to be written at offset pos
Handle(name, pos, busy) == [name |-> name, pos |-> pos, busy |-> busy]
PendingOf(handle) ==
    IF IsSome(handle) /\ IsSome(Unwrap(handle).busy)
    THEN {[name |-> Unwrap(handle).name, pos |-> Unwrap(handle).pos,
           chunk |-> Unwrap(Unwrap(handle).busy), at |-> At]}
    ELSE {}


\* faulty variant: download_order drops the Err and goes on with the next download
AbortSwallowed(outcome, sofar) ==
    /\ result' = "running"
    /\ pc' = "order"
    /\ di' = di + 1
    /\ log' = Append(sofar, Event(outcome, << >>))
    /\ inflight' = inflight \cup PendingOf(dest)
    /\ dest' = None
    /\ stream' = None
    /\ UNCHANGED <<pi, vi>>

\* an Err (the ? operator) or a panic leaves download and download_order at
\* once; the File is dropped, its background write (if any) still runs
Abort(outcome, sofar) ==
    /\ result' = outcome
    /\ pc' = "done"
    /\ log' = Append(sofar, Event(outcome, << >>))
    /\ inflight' = inflight \cup PendingOf(dest)
    /\ dest' = None
    /\ stream' = None
    /\ UNCHANGED <<pi, di, vi>>

Running(where) == result = "running" /\ pc = where

(***************************************************************************)
(* download_order: for product in subproducts, for download in downloads,  *)
(* download(download).await?                                               *)
(***************************************************************************)
InOrder == pi <= Len(order.subproducts)
InSubproduct == InOrder /\ di <= Len(order.subproducts[pi].downloads)

EnterDownload ==
    /\ Running("order") /\ InSubproduct
    /\ pc' = "file" /\ vi' = 1
    /\ UNCHANGED <<cli, reader, order, platforms, fs, pi, di, dest, inflight, stream, result, log>>

NextSubproduct ==
    /\ Running("order") /\ InOrder /\ ~InSubproduct
    /\ pi' = pi + 1 /\ di' = 1
    /\ UNCHANGED <<cli, reader, order, platforms, fs, pc, vi, dest, inflight, stream, result, log>>

DownloadOrderReturn ==
    /\ Running("order") /\ ~InOrder
    /\ result' = "Ok" /\ pc' = "done"
    /\ UNCHANGED <<cli, reader, order, platforms, fs, pi, di, vi, dest, inflight, stream, log>>

(***************************************************************************)
(* download: the loop over download.download_struct                        *)
(***************************************************************************)
InDownload == vi <= Len(CurDownload.download_struct)
Continue == pc' = "file" /\ vi' = vi + 1

DownloadReturn ==
    /\ Running("file") /\ ~InDownload
    /\ pc' = "order" /\ di' = di + 1
    /\ UNCHANGED <<cli, reader, order, platforms, fs, pi, vi, dest, inflight, stream, result, log>>


\* faulty variant: a variant without URL ends the loop (break)
SkipNoUrlBreaks ==
    /\ Running("file") /\ InDownload
    /\ ~IsSome(CurFile.url)
    /\ pc' = "file" /\ vi' = Len(CurDownload.download_struct) + 1
    /\ UNCHANGED <<cli, reader, order, platforms, fs, pi, di, dest, inflight, stream, result, log>>

\* faulty variant: a variant without URL is an error
SkipNoUrlIsError ==
    /\ Running("file") /\ InDownload
    /\ ~IsSome(CurFile.url)
    /\ Abort("UrlParse", log)
    /\ UNCHANGED <<cli, reader, order, platforms, fs>>

SkipNoUrl ==
    /\ Running("file") /\ InDownload
    /\ ~IsSome(CurFile.url)
    /\ Continue
    /\ UNCHANGED <<cli, reader, order, platforms, fs, pi, di, dest, inflight, stream, result, log>>

SkipPlatform ==
    /\ Running("file") /\ InDownload
    /\ IsSome(CurFile.url)
    /\ ~Eligible(CurDownload, CurFile)
    /\ Continue
    /\ UNCHANGED <<cli, reader, order, platforms, fs, pi, di, dest, inflight, stream, result, log>>

\* Url::parse(..)? fails
UrlParseError ==
    /\ Running("file") /\ InDownload
    /\ Eligible(CurDownload, CurFile)
    /\ ~ParsedUrl(CurFile).ok
    /\ Abort("UrlParse", log)
    /\ UNCHANGED <<cli, reader, order, platforms, fs>>

\* the unwrap() of the file name finds None
FileNamePanic ==
    /\ Running("file") /\ InDownload
    /\ Eligible(CurDownload, CurFile)
    /\ ParsedUrl(CurFile).ok
    /\ ~IsSome(FName(CurFile))
    /\ Abort("panic", log)
    /\ UNCHANGED <<cli, reader, order, platforms, fs>>

Reaches == Running("file") /\ InDownload /\ Eligible(CurDownload, CurFile)
              /\ HasFileName(CurFile)


\* faulty variant: the continue is missing, the valid file is downloaded again
ExistingValidFallsThrough ==
    /\ Reaches
    /\ fs[CurName].exists
    /\ CheckDataValidity(CurFile, fs[CurName].data)
    /\ Logged("valid", fs[CurName].data)
    /\ pc' = "create"
    /\ UNCHANGED <<cli, reader, order, platforms, fs, pi, di, vi, dest, inflight, stream, result>>

\* file_name.exists(), the file opens and reads, check_data_validity is true
ExistingValid ==
    /\ Reaches
    /\ fs[CurName].exists
    /\ CheckDataValidity(CurFile, fs[CurName].data)
    /\ Logged("valid", fs[CurName].data)
    /\ Continue
    /\ UNCHANGED <<cli, reader, order, platforms, fs, pi, di, dest, inflight, stream, result>>

\* file_name.exists(), and File::open, read_to_end or check_data_validity fails
ExistingIoError ==
    /\ Reaches
    /\ fs[CurName].exists
    /\ Abort("IO", log)
    /\ UNCHANGED <<cli, reader, order, platforms, fs>>

\* no file, or one that does not validate: println!("downloading file ..")
BeginDownload ==
    /\ Reaches
    /\ ~fs[CurName].exists \/ ~CheckDataValidity(CurFile, fs[CurName].data)
    /\ Logged(IF fs[CurName].exists THEN "stale" ELSE "missing", fs[CurName].data)
    /\ pc' = "create"
    /\ UNCHANGED <<cli, reader, order, platforms, fs, pi, di, vi, dest, inflight, stream, result>>

\* faulty variant: the file comes into being with its first write only
CreateFileLazy ==
    /\ Running("create")
    /\ dest' = Some(Handle(CurName, 0, None))
    /\ Logged("create", << >>)
    /\ pc' = "send"
    /\ UNCHANGED <<cli, reader, order, platforms, fs, pi, di, vi, inflight, stream, result>>

\* File::create(file_name)
CreateFile ==
    /\ Running("create")
    /\ fs' = [fs EXCEPT ![CurName] = FileWith(<< >>)]
    /\ dest' = Some(Handle(CurName, 0, None))
    /\ Logged("create", << >>)
    /\ pc' = "send"
    /\ UNCHANGED <<cli, reader, order, platforms, pi, di, vi, inflight, stream, result>>

CreateIoError ==
    /\ Running("create")
    /\ Abort("IO", log)
    /\ UNCHANGED <<cli, reader, order, platforms, fs>>

\* client.get(download_url).headers(..).send()
SendRequest ==
    /\ Running("send")
    /\ \E body \in Bodies :
          /\ stream' = Some(body)
          /\ Logged("get", Flatten(body))
    /\ pc' = "stream"
    /\ UNCHANGED <<cli, reader, order, platforms, fs, pi, di, vi, dest, inflight, result>>

SendError ==
    /\ Running("send")
    /\ Abort("Api", Append(log, Event("get", << >>)))
    /\ UNCHANGED <<cli, reader, order, platforms, fs>>

\* stream.next() is Some(Ok(chunk)); dest.write_all(&chunk): the previous
\* background write is awaited, then this chunk is handed to a new one
WriteChunk ==
    /\ Running("stream")
    /\ Unwrap(stream) # << >>
    /\ LET h == Unwrap(dest)
           chunk == Head(Unwrap(stream))
           pos == IF IsSome(h.busy) THEN h.pos + Len(Unwrap(h.busy)) ELSE h.pos
       IN  /\ fs' = IF IsSome(h.busy)
                    THEN Landed(fs, [name |-> h.name, pos |-> h.pos,
                                     chunk |-> Unwrap(h.busy)])
                    ELSE fs
           /\ dest' = Some(Handle(h.name, pos, Some(chunk)))
           /\ Logged("write", chunk)
    /\ stream' = Some(Tail(Unwrap(stream)))
    /\ UNCHANGED <<cli, reader, order, platforms, pc, pi, di, vi, inflight, result>>

\* write_all finds that the previous background write has failed
WriteIoError ==
    /\ Running("stream")
    /\ Unwrap(stream) # << >>
    /\ IsSome(Unwrap(dest).busy)
    /\ result' = "IO" /\ pc' = "done"
    /\ log' = Append(log, Event("IO", << >>))
    /\ dest' = None /\ stream' = None
    /\ UNCHANGED <<cli, reader, order, platforms, fs, pi, di, vi, inflight>>

\* stream.next() is Some(Err(..))
StreamError ==
    /\ Running("stream")
    /\ Abort("Api", log)
    /\ UNCHANGED <<cli, reader, order, platforms, fs>>

\* stream.next() is None; drop(dest), without a flush
StreamEnd ==
    /\ Running("stream")
    /\ Unwrap(stream) = << >>
    /\ inflight' = inflight \cup PendingOf(dest)
    /\ dest' = None
    /\ stream' = None
    /\ pc' = "verify"
    /\ UNCHANGED <<cli, reader, order, platforms, fs, pi, di, vi, result, log>>


\* faulty variant: a mismatch after the download is returned as an error
VerifyStrict ==
    /\ Running("verify")
    /\ IF CheckDataValidity(CurFile, fs[CurName].data)
       THEN /\ Logged("verified", fs[CurName].data)
            /\ Continue
            /\ UNCHANGED <<pi, di, dest, inflight, stream, result>>
       ELSE Abort("IO", Append(log, Event("mismatch", fs[CurName].data)))
    /\ UNCHANGED <<cli, reader, order, platforms, fs>>

\* if check_data_validity(file, file_name)? {}
Verify ==
    /\ Running("verify")
    /\ Logged(IF CheckDataValidity(CurFile, fs[CurName].data)
              THEN "verified" ELSE "mismatch", fs[CurName].data)
    /\ Continue
    /\ UNCHANGED <<cli, reader, order, platforms, fs, pi, di, dest, inflight, stream, result>>

\* the File::open or a read of check_data_validity fails
VerifyIoError ==
    /\ Running("verify")
    /\ Abort("IO", log)
    /\ UNCHANGED <<cli, reader, order, platforms, fs>>

\* the blocking pool runs the background write of the open handle
BackgroundWrite ==
    /\ IsSome(dest) /\ IsSome(Unwrap(dest).busy)
    /\ LET h == Unwrap(dest)
       IN  /\ fs' = Landed(fs, [name |-> h.name, pos |-> h.pos, chunk |-> Unwrap(h.busy)])
           /\ dest' = Some(Handle(h.name, h.pos + Len(Unwrap(h.busy)), None))
    /\ UNCHANGED <<cli, reader, order, platforms, pc, pi, di, vi, inflight, stream, result, log>>

\* the blocking pool runs the background write of a handle already dropped
DetachedWrite ==
    /\ \E w \in inflight :
          /\ fs' = Landed(fs, w)
          /\ inflight' = inflight \ {w}
    /\ UNCHANGED <<cli, reader, order, platforms, pc, pi, di, vi, dest, stream, result, log>>

Next ==
    \/ EnterDownload \/ NextSubproduct \/ DownloadOrderReturn
    \/ DownloadReturn \/ SkipNoUrl \/ SkipPlatform
    \/ UrlParseError \/ FileNamePanic
    \/ ExistingValid \/ ExistingIoError \/ BeginDownload
    \/ CreateFile \/ CreateIoError
    \/ SendRequest \/ SendError
    \/ WriteChunk \/ WriteIoError \/ StreamError \/ StreamEnd
    \/ Verify \/ VerifyIoError
    \/ BackgroundWrite \/ DetachedWrite

Spec == Init /\ [][Next]_vars


(***************************************************************************)
(* sha1_digest / md5_digest as a loop over a reader that yields what it    *)
(* likes: each read(&mut buffer) puts 1..ReadBufferSize bytes of what is   *)
(* left at the front of the buffer, or returns 0, or fails.  buffer is the *)
(* part of the 1024-byte array written so far (the rest is still zero);    *)
(* taken is the history of the bytes read, reads that of the counts.       *)
(***************************************************************************)
MaxBytes == 3
Contents == SeqsUpTo({1, 2}, MaxBytes)
Algorithms == {"sha1", "md5"}
InitOf(algorithm) == IF algorithm = "sha1" THEN Sha1Init ELSE Md5Init
MultOf(algorithm) == IF algorithm = "sha1" THEN Sha1Mult ELSE Md5Mult
Min(a, b) == IF a < b THEN a ELSE b

\* in the history of reads: the read that returned an Err
ReadFailed == 0 - 1
DigestOk(hash) == Some([ok |-> TRUE, value |-> hash])
DigestErr(kind) == Some([ok |-> FALSE, value |-> kind])

InitDigest ==
    /\ PipelineIdle
    /\ cli = CliIdle
    /\ \E algorithm \in Algorithms, content \in Contents :
          reader = [pc |-> "read", algorithm |-> algorithm, rest |-> content,
                    buffer |-> << >>, digest |-> InitOf(algorithm),
                    taken |-> << >>, reads |-> << >>, ret |-> None]

\* faulty variant: the whole buffer written so far is hashed, not buffer[..count]
DigestReadWholeBuffer ==
    /\ reader.pc = "read"
    /\ \E count \in 1..Min(Len(reader.rest), ReadBufferSize) :
          LET chunk == SubSeq(reader.rest, 1, count)
              buffer == WriteAt(reader.buffer, 0, chunk)
          IN  reader' = [reader EXCEPT
                  !.rest = Drop(@, count),
                  !.buffer = buffer,
                  !.digest = DigestUpdate(@, buffer, MultOf(reader.algorithm)),
                  !.taken = @ \o chunk,
                  !.reads = Append(@, count)]
    /\ UNCHANGED <<pipeline, cli>>

\* count = reader.read(&mut buffer).await? with count > 0; digest.update(&buffer[..count])
DigestRead ==
    /\ reader.pc = "read"
    /\ \E count \in 1..Min(Len(reader.rest), ReadBufferSize) :
          LET chunk == SubSeq(reader.rest, 1, count)
              buffer == WriteAt(reader.buffer, 0, chunk)
          IN  reader' = [reader EXCEPT
                  !.rest = Drop(@, count),
                  !.buffer = buffer,
                  !.digest = DigestUpdate(@, SubSeq(buffer, 1, count),
                                          MultOf(reader.algorithm)),
                  !.taken = @ \o chunk,
                  !.reads = Append(@, count)]
    /\ UNCHANGED <<pipeline, cli>>

\* count == 0: break; digest.finalize(); Ok(format!("{:x}", hash))
DigestBreak ==
    /\ reader.pc = "read"
    /\ reader' = [reader EXCEPT !.pc = "done", !.reads = Append(@, 0),
                                 !.ret = DigestOk(LowerHex(reader.digest))]
    /\ UNCHANGED <<pipeline, cli>>

\* reader.read(..).await? is an Err: ApiError::IO
DigestReadError ==
    /\ reader.pc = "read"
    /\ reader' = [reader EXCEPT !.pc = "done", !.reads = Append(@, ReadFailed),
                                 !.ret = DigestErr("IO")]
    /\ UNCHANGED <<pipeline, cli>>

NextDigest == DigestRead \/ DigestBreak \/ DigestReadError

SpecDigest == InitDigest /\ [][NextDigest]_vars


(***************************************************************************)
(* The downloader's main (downloader/src/main.rs): the three subcommands   *)
(* over the client.  A client call is what main sees of it: its outcome,   *)
(* "Ok", the ApiError kind, or "panic" (download_order's unwrap).  calls   *)
(* is the history of the calls made.                                       *)
(***************************************************************************)
MaxOrders == 2
GameKeys == {"k1", "k2"}
SubCommands ==
    {[subcmd |-> "ListOrders", gamekey |-> ""], [subcmd |-> "DownloadAll", gamekey |-> ""]}
    \cup {[subcmd |-> "DownloadOrder", gamekey |-> k] : k \in GameKeys}
RequestOutcomes == {"Ok", "Api"}
DownloadOrderOutcomes == {"Ok", "Api", "IO", "UrlParse", "panic"}

InitMain ==
    /\ PipelineIdle
    /\ reader = ReaderIdle
    /\ \E opts \in SubCommands :
          cli = [pc |-> "setup", opts |-> opts, items |-> << >>,
                 exit |-> "running", calls |-> << >>]

Called(call, key, outcome) ==
    Append(cli.calls, [call |-> call, key |-> key, outcome |-> outcome])

\* the ? operator on an Err: main returns it; a panic unwinds main
Returned(calls, outcome) ==
    cli' = [cli EXCEPT !.pc = "exit", !.calls = calls,
                       !.exit = IF outcome = "panic" THEN "panic" ELSE "Err"]

\* Opts::parse(), Settings::new()?, env::current_dir()?, HBClient::new(..)
Setup ==
    /\ cli.pc = "setup"
    /\ \E outcome \in {"Ok", "Err", "panic"} :
          IF outcome = "Ok"
          THEN cli' = [cli EXCEPT !.pc = "match"]
          ELSE cli' = [cli EXCEPT !.pc = "exit", !.exit = outcome]
    /\ UNCHANGED <<pipeline, reader>>

\* SubCommand::ListOrders: list_orders().await, then println!("{:?}", ..)
ListOrders ==
    /\ cli.pc = "match" /\ cli.opts.subcmd = "ListOrders"
    /\ \E outcome \in RequestOutcomes :
          cli' = [cli EXCEPT !.pc = "end", !.calls = Called("list_orders", "", outcome)]
    /\ UNCHANGED <<pipeline, reader>>

\* SubCommand::DownloadAll: list_orders().await?
DownloadAll ==
    /\ cli.pc = "match" /\ cli.opts.subcmd = "DownloadAll"
    /\ \E outcome \in RequestOutcomes :
          IF outcome = "Ok"
          THEN \E order_items \in SeqsUpTo(GameKeys, MaxOrders) :
                  cli' = [cli EXCEPT !.pc = "for", !.items = order_items,
                                     !.calls = Called("list_orders", "", outcome)]
          ELSE Returned(Called("list_orders", "", outcome), outcome)
    /\ UNCHANGED <<pipeline, reader>>

\* for order_item in order_items: get_order(&order_item.gamekey).await?
DownloadAllGetOrder ==
    /\ cli.pc = "for" /\ cli.items # << >>
    /\ \E outcome \in RequestOutcomes :
          LET calls == Called("get_order", Head(cli.items), outcome) IN
          IF outcome = "Ok"
          THEN cli' = [cli EXCEPT !.pc = "download", !.calls = calls]
          ELSE Returned(calls, outcome)
    /\ UNCHANGED <<pipeline, reader>>

\* download_order(&order).await?, then the next order_item
DownloadAllDownloadOrder ==
    /\ cli.pc = "download"
    /\ \E outcome \in DownloadOrderOutcomes :
          LET calls == Called("download_order", Head(cli.items), outcome) IN
          IF outcome = "Ok"
          THEN cli' = [cli EXCEPT !.pc = "for", !.items = Tail(@), !.calls = calls]
          ELSE Returned(calls, outcome)
    /\ UNCHANGED <<pipeline, reader>>

\* the for loop is over
DownloadAllEnd ==
    /\ cli.pc = "for" /\ cli.items = << >>
    /\ cli' = [cli EXCEPT !.pc = "end"]
    /\ UNCHANGED <<pipeline, reader>>

\* SubCommand::DownloadOrder { gamekey }: get_order(&gamekey).await?, println!
DownloadOrderGetOrder ==
    /\ cli.pc = "match" /\ cli.opts.subcmd = "DownloadOrder"
    /\ \E outcome \in RequestOutcomes :
          LET calls == Called("get_order", cli.opts.gamekey, outcome) IN
          IF outcome = "Ok"
          THEN cli' = [cli EXCEPT !.pc = "download_one", !.calls = calls]
          ELSE Returned(calls, outcome)
    /\ UNCHANGED <<pipeline, reader>>

\* download_order(&order).await?
DownloadOrderDownloadOrder ==
    /\ cli.pc = "download_one"
    /\ \E outcome \in DownloadOrderOutcomes :
          LET calls == Called("download_order", cli.opts.gamekey, outcome) IN
          IF outcome = "Ok"
          THEN cli' = [cli EXCEPT !.pc = "end", !.calls = calls]
          ELSE Returned(calls, outcome)
    /\ UNCHANGED <<pipeline, reader>>

\* Ok(())
MainReturn ==
    /\ cli.pc = "end"
    /\ cli' = [cli EXCEPT !.pc = "exit", !.exit = "Ok"]
    /\ UNCHANGED <<pipeline, reader>>

NextMain ==
    \/ Setup \/ ListOrders \/ MainReturn
    \/ DownloadAll \/ DownloadAllGetOrder \/ DownloadAllDownloadOrder \/ DownloadAllEnd
    \/ DownloadOrderGetOrder \/ DownloadOrderDownloadOrder

SpecMain == InitMain /\ [][NextMain]_vars


(***************************************************************************)
(* Properties.  log holds, per variant position, what was found ("valid",  *)
(* "stale", "missing", "verified", "mismatch"), what was done ("create",   *)
(* "get", "write") and how download ended ("Api", "IO", "UrlParse",        *)
(* "panic").                                                               *)
(***************************************************************************)
DownloadAt(at) == order.subproducts[at[1]].downloads[at[2]]
VariantAt(at) == DownloadAt(at).download_struct[at[3]]
Positions ==
    UNION { UNION { { <<p, d, v>> :
                        v \in DOMAIN order.subproducts[p].downloads[d].download_struct } :
                    d \in DOMAIN order.subproducts[p].downloads } :
            p \in DOMAIN order.subproducts }
NotAfter(a, b) ==
    \/ a[1] < b[1]
    \/ a[1] = b[1] /\ a[2] < b[2]
    \/ a[1] = b[1] /\ a[2] = b[2] /\ a[3] <= b[3]
Errors == {"Api", "IO", "UrlParse"}
Touches == {"create", "get", "write"}
Checks == {"valid", "stale", "verified", "mismatch"}
Passed == {"valid", "verified"}
OpsAt(at) == {log[i].op : i \in {j \in DOMAIN log : log[j].at = at}}
Gets(at) == {i \in DOMAIN log : log[i].at = at /\ log[i].op = "get"}

\* the step of a variant whose file exists and validates
C1_ValidStep ==
    ( /\ Reaches
      /\ fs[CurName].exists
      /\ CheckDataValidity(CurFile, fs[CurName].data)
      /\ result' = "running"
      /\ <<pc, vi>>' # <<pc, vi>> )
    => /\ fs' = fs
       /\ log' = Append(log, Event("valid", fs[CurName].data))
       /\ pc' = "file" /\ vi' = vi + 1
       /\ UNCHANGED <<pi, di, dest, inflight, stream>>
C1_ValidUntouched ==
    \A i \in DOMAIN log : log[i].op = "valid" => OpsAt(log[i].at) = {"valid"}
\* C1: when the file of an eligible variant exists and check_data_validity is
\* true for it, the variant's step issues no GET, creates and writes nothing
\* (the folder is unchanged) and goes on to the next variant; nothing is ever
\* fetched, created or written for such a variant.
C1_ValidExistingFileIsKept == [][C1_ValidStep /\ C1_ValidUntouched']_vars
C1_Witness ==
    /\ result = "Ok"
    /\ \E i \in DOMAIN log :
          /\ log[i].op = "valid"
          /\ IsSome(VariantAt(log[i].at).sha1)
          /\ i < Len(log)

\* C2 (as claimed): a variant with a digest whose file was there with other
\* content, served bytes that match the digest and no error: exactly one GET,
\* the file holds the served bytes and the check after the download is true.
C2_StaleFileIsReplacedAndValid ==
    \A i \in DOMAIN log :
        LET at == log[i].at
            v == VariantAt(at)
        IN  ( /\ log[i].op \in {"verified", "mismatch"}
              /\ IsSome(v.sha1) \/ IsSome(v.md5)
              /\ "stale" \in OpsAt(at)
              /\ \A j \in Gets(at) : CheckDataValidity(v, log[j].data) )
            => /\ Cardinality(Gets(at)) = 1
               /\ log[i].op = "verified"
               /\ \A j \in Gets(at) : log[i].data = log[j].data

\* C3: nothing is fetched, created, written (or even checked) for a variant of
\* a Download whose platform is not configured, and no error comes from it.
C3_DisallowedPlatformUntouched ==
    /\ \A i \in DOMAIN log : DownloadAt(log[i].at).platform \in platforms
    /\ result \notin {"running", "Ok"} => CurDownload.platform \in platforms
C3_Witness ==
    /\ result = "Ok"
    /\ \E at \in Positions :
          /\ DownloadAt(at).platform \notin platforms
          /\ IsSome(VariantAt(at).url)
          /\ IsSome(VariantAt(at).sha1) \/ ~HasFileName(VariantAt(at))

\* C4: nothing is fetched, created or written for a variant without URL, and
\* no error comes from it.
C4_NoUrlUntouched ==
    /\ \A i \in DOMAIN log : IsSome(VariantAt(log[i].at).url)
    /\ result \notin {"running", "Ok"} => IsSome(CurFile.url)
C4_Witness ==
    /\ result = "Ok"
    /\ \E at \in Positions :
          /\ ~IsSome(VariantAt(at).url)
          /\ DownloadAt(at).platform \in platforms
          /\ \E i \in DOMAIN log : log[i].at # at /\ ~NotAfter(log[i].at, at)

\* C5: variants are handled in list order, and an error ends download_order
\* there: the error is the last thing in the history, so no request and no
\* write is made for any variant after the failing one.
C5_ErrorEndsTheOrder ==
    /\ \A i, j \in DOMAIN log : i < j => NotAfter(log[i].at, log[j].at)
    /\ \A i \in DOMAIN log :
          log[i].op \in Errors =>
              /\ i = Len(log)
              /\ result = log[i].op
              /\ pc = "done"
              /\ log[i].at = At
    /\ result \in Errors => log # << >> /\ log[Len(log)].op = result
C5_Witness ==
    /\ result \in Errors
    /\ \E at \in Positions :
          /\ at # At /\ NotAfter(At, at)
          /\ Eligible(DownloadAt(at), VariantAt(at))
          /\ HasFileName(VariantAt(at))
          /\ OpsAt(at) = {}
    /\ \E i \in DOMAIN log : log[i].op \in Touches

\* C6: with sha1 set, check_data_validity is true exactly when the SHA-1 hex
\* digest of the bytes equals it (case matters), whatever md5 is; md5 decides
\* only when sha1 is absent.
C6_Sha1BeforeMd5 ==
    \A i \in DOMAIN log :
        LET v == VariantAt(log[i].at) IN
        log[i].op \in Checks =>
            /\ IsSome(v.sha1) =>
                  (log[i].op \in Passed <=> Unwrap(v.sha1) = Sha1Digest(log[i].data))
            /\ ~IsSome(v.sha1) /\ IsSome(v.md5) =>
                  (log[i].op \in Passed <=> Unwrap(v.md5) = Md5Digest(log[i].data))
C6_Witness ==
    \E i \in DOMAIN log :
        LET v == VariantAt(log[i].at) IN
        /\ log[i].op = "stale"
        /\ IsSome(v.sha1) /\ IsSome(v.md5)
        /\ Unwrap(v.md5) = Md5Digest(log[i].data)
        /\ Unwrap(v.sha1) = UpperHex(DigestLoop(Sha1Init, log[i].data, Sha1Mult))

\* C7: with neither sha1 nor md5 set, check_data_validity is true whatever the
\* bytes are.
C7_NoDigestIsValid ==
    \A i \in DOMAIN log :
        LET v == VariantAt(log[i].at) IN
        (log[i].op \in Checks /\ ~IsSome(v.sha1) /\ ~IsSome(v.md5))
            => log[i].op \in Passed
C7_Witness ==
    \E i \in DOMAIN log :
        LET v == VariantAt(log[i].at) IN
        /\ log[i].op = "valid" /\ log[i].data = Other
        /\ ~IsSome(v.sha1) /\ ~IsSome(v.md5)

\* the step that logs a mismatch found after the download
C8_MismatchStep ==
    (Len(log') = Len(log) + 1 /\ log'[Len(log')].op = "mismatch")
    => /\ result' = "running"
       /\ fs' = fs /\ fs[CurName].exists
       /\ pc' = "file" /\ vi' = vi + 1
       /\ UNCHANGED <<pi, di>>
C8_NoRetry ==
    \A i \in DOMAIN log :
        log[i].op = "mismatch" => i = Len(log) \/ log[i + 1].at # log[i].at
\* C8: the step that finds a mismatch after the download returns no error,
\* leaves the folder as it is (the file stays) and goes on to the next variant.
C8_MismatchIsNotFatal == [][C8_MismatchStep /\ C8_NoRetry']_vars
C8_Witness ==
    /\ result = "Ok"
    /\ \E i \in DOMAIN log :
          /\ log[i].op = "mismatch"
          /\ i < Len(log)
          /\ log[i + 1].op = "missing"

\* C9 (as claimed): an eligible variant whose URL does not parse or has no
\* usable file name ends with the explicit error, never with a panic, and
\* nothing else is done for it.
C9_MalformedUrlIsAnError ==
    \A i \in DOMAIN log :
        LET v == VariantAt(log[i].at) IN
        ~HasFileName(v) => log[i].op = "UrlParse"

\* C10 (as claimed): the target file of a variant is created or truncated
\* only after that variant's GET has been sent.
C10_GetBeforeCreate ==
    \A i \in DOMAIN log :
        log[i].op = "create" =>
            \E j \in 1..(i - 1) : log[j].op = "get" /\ log[j].at = log[i].at

\* C11 (as claimed): when the check after the download reads the file, no
\* write of that variant is still pending in the background, and the bytes it
\* reads are all the bytes of the response body.
C11_CheckReadsFinalBytes ==
    /\ Running("verify") => \A w \in inflight : w.at # At
    /\ \A i \in DOMAIN log :
          log[i].op \in {"verified", "mismatch"} =>
              \A j \in Gets(log[i].at) : log[i].data = log[j].data

\* two eligible variants of the order with the same local file name
Collide(p, q) ==
    /\ p # q
    /\ Eligible(DownloadAt(p), VariantAt(p)) /\ HasFileName(VariantAt(p))
    /\ Eligible(DownloadAt(q), VariantAt(q)) /\ HasFileName(VariantAt(q))
    /\ FName(VariantAt(p)) = FName(VariantAt(q))
\* C12 (as claimed): after a pass without error in which an earlier variant
\* was downloaded, the last variant with the same file name was downloaded
\* too, and once every write has landed the file holds the body served to it.
C12_LastWriteWins ==
    (result = "Ok" /\ inflight = {}) =>
        \A p, q \in Positions :
            ( /\ Collide(p, q) /\ NotAfter(p, q)
              /\ \A r \in Positions : Collide(q, r) => NotAfter(r, q)
              /\ Gets(p) # {} )
            => /\ Gets(q) # {}
               /\ \A j \in Gets(q) :
                     fs[Unwrap(FName(VariantAt(q)))].data = log[j].data

\* q comes after p in the list of the same Download
FollowsInDownload(p, q) == p[1] = q[1] /\ p[2] = q[2] /\ p[3] < q[3]
\* download has gone past variant q without an error
PastVariant(q) == result = "Ok" \/ (q # At /\ NotAfter(q, At))
\* C13: an eligible variant that follows an ineligible one in the list of
\* its Download is still processed: once download is past it, it has been
\* checked (and, if needed, downloaded).
C13_SkipIsContinue ==
    \A p, q \in Positions :
        ( /\ FollowsInDownload(p, q)
          /\ ~Eligible(DownloadAt(p), VariantAt(p))
          /\ Eligible(DownloadAt(q), VariantAt(q))
          /\ HasFileName(VariantAt(q))
          /\ PastVariant(q) )
        => /\ OpsAt(p) = {}
           /\ OpsAt(q) \cap {"valid", "stale", "missing"} # {}
           /\ "valid" \notin OpsAt(q) => "get" \in OpsAt(q)
C13_Witness ==
    /\ result = "Ok"
    /\ \E p, q \in Positions :
          /\ FollowsInDownload(p, q)
          /\ ~Eligible(DownloadAt(p), VariantAt(p))
          /\ Eligible(DownloadAt(q), VariantAt(q))
          /\ "verified" \in OpsAt(q)

\* C14: the file a variant is written to is named by one lexeme of its URL:
\* the one after the last "/" before any "?" or "#"; it is an entry of the
\* download folder itself, and it exists once created.
C14_TargetIsLastSegment ==
    IsSome(dest) =>
        LET web == Unwrap(CurFile.url)
            name == Unwrap(dest).name
        IN  /\ name \in DOMAIN fs
            /\ fs[name].exists
            /\ \E k \in 2..Len(web) :
                  /\ web[k] = name
                  /\ name \notin Delimiters
                  /\ web[k - 1] = "/"
                  /\ k = Len(web) \/ web[k + 1] \in {"?", "#"}
                  /\ \A j \in 1..k : web[j] \notin {"?", "#"}
C14_Witness ==
    /\ IsSome(dest)
    /\ Unwrap(CurFile.url) = UrlA2
    /\ Unwrap(dest).name = "a.zip"
    /\ IsSome(Unwrap(dest).busy)

\* the call of download for the Download of variant q has returned Ok
DownloadReturned(q) == result = "Ok" \/ q[1] < pi \/ (q[1] = pi /\ q[2] < di)
\* C17: once download has returned Ok for a Download, the file of each of
\* its variants with a URL and an allowed platform exists in the folder.
C17_OkMeansFilesExist ==
    \A q \in Positions :
        (DownloadReturned(q) /\ Eligible(DownloadAt(q), VariantAt(q)))
        => /\ HasFileName(VariantAt(q))
           /\ fs[Unwrap(FName(VariantAt(q)))].exists
C17_Witness ==
    /\ result = "Ok"
    /\ \E p, q \in Positions :
          /\ "valid" \in OpsAt(p)
          /\ "missing" \in OpsAt(q)
          /\ "mismatch" \in OpsAt(q)

\* C18 (as claimed): download_order stops only by returning Ok or Err.
C18_DownloadOrderReturns ==
    pc = "done" => result \in {"Ok"} \cup Errors

\* the digest of a byte sequence hashed in one piece
Reference(algorithm, bytes) ==
    LowerHex(DigestUpdate(InitOf(algorithm), bytes, MultOf(algorithm)))
\* C15: however the reader cuts the bytes into reads, a digest function that
\* returns Ok returns the digest of all the bytes read, hashed in one piece
\* (the value check_data_validity compares with); it returns Ok when a read
\* returned 0 and Err(IO) when a read failed.
C15_DigestOfAllBytesRead ==
    reader.pc = "done" =>
        LET ret == Unwrap(reader.ret)
            last == reader.reads[Len(reader.reads)]
        IN
        IF last # ReadFailed
        THEN /\ ret.ok
             /\ last = 0
             /\ \A k \in 1..(Len(reader.reads) - 1) :
                   reader.reads[k] \in 1..ReadBufferSize
             /\ ret.value = Reference(reader.algorithm, reader.taken)
             /\ ret.value = IF reader.algorithm = "sha1"
                            THEN Sha1Digest(reader.taken)
                            ELSE Md5Digest(reader.taken)
        ELSE ~ret.ok /\ ret.value = "IO"
C15_Witness ==
    /\ reader.pc = "done"
    /\ Unwrap(reader.ret).ok
    /\ reader.rest = << >>
    /\ Len(reader.taken) = MaxBytes
    /\ reader.reads = <<2, 1, 0>>
    /\ reader.buffer # SubSeq(reader.taken, 1, 2)

\* C16 (as claimed): a client call that returns an error is the last call
\* the command makes, and the command does not complete successfully.
C16_ClientErrorsEndTheCommand ==
    \A k \in DOMAIN cli.calls :
        cli.calls[k].outcome \in Errors =>
            /\ k = Len(cli.calls)
            /\ cli.exit # "Ok"

=============================================================================
